---- MODULE Spec2Model ----
(***************************************************************************)
(* Model of the hash-linked medical record ledger of src/blockchain.py.    *)
(*                                                                         *)
(* Representation.                                                         *)
(*  - A Python string is a sequence of one-character strings.              *)
(*  - A Python/JSON value is a record [ty, s]: its type and its str()      *)
(*    rendering (what an f-string substitutes for it).                     *)
(*  - A file is a record [kind, chain]: absent, holding the JSON text of a *)
(*    chain, holding no bytes ("empty": opened for writing and not yet     *)
(*    flushed), or holding text json.load rejects ("garbage").             *)
(*  - SHA-256 is idealised as collision free: the digest of a string is    *)
(*    the string behind a marker.                                          *)
(*  - Each caller (a request thread of the web layer, or the __main__      *)
(*    demo) is a process p with a program counter pc[p] and the locals of  *)
(*    add_record/save_chain.                                               *)
(***************************************************************************)
EXTENDS Integers, Sequences, FiniteSets, TLC

VARIABLES blockchain_file, backup_file, log_file, export_file,
          pc, chain, record_hash, old_data, saved, backup_data, ret, entry, edit, saves

vars == <<blockchain_file, backup_file, log_file, export_file,
          pc, chain, record_hash, old_data, saved, backup_data, ret, entry, edit, saves>>

(* ------------------------------ bounds --------------------------------- *)

\* add_record is called only while the loaded chain has fewer blocks than this
MaxBlocks == 4
\* time.time() returns one of 0..MaxTime (whole seconds, as a float)
MaxTime == 1
\* an operation that writes audit lines is called only while they fit in MaxLog lines
MaxLog == 6
\* where the audit log has a quota, the lines it can hold
LogQuota == 2

(* --------------------------- Python values ----------------------------- *)

Digit(d) == <<"0", "1", "2", "3", "4", "5", "6", "7", "8", "9">>[d + 1]

\* str(n) of a non-negative int
RECURSIVE Str(_)
Str(n) == IF n < 10 THEN <<Digit(n)>> ELSE Str(n \div 10) \o <<Digit(n % 10)>>

PyStr(s) == [ty |-> "str", s |-> s]
PyInt(n) == [ty |-> "int", s |-> Str(n)]
\* a float holding a whole number of seconds renders as "<n>.0"
PyFloat(n) == [ty |-> "float", s |-> Str(n) \o <<".", "0">>]
PyTrue == [ty |-> "bool", s |-> <<"T", "r", "u", "e">>]
PyFalse == [ty |-> "bool", s |-> <<"F", "a", "l", "s", "e">>]

\* f"{v}"
Fmt(v) == v.s

\* the value of a number as a float rendering (True is 1, False is 0)
Num(v) == CASE v.ty = "int" -> v.s \o <<".", "0">>
            [] v.ty = "float" -> v.s
            [] v.ty = "bool" -> IF v = PyTrue THEN <<"1", ".", "0">> ELSE <<"0", ".", "0">>

\* a == b in Python: numbers compare by value, everything else by type and content
PyEq(a, b) == IF a.ty \in {"int", "float", "bool"} /\ b.ty \in {"int", "float", "bool"}
              THEN Num(a) = Num(b)
              ELSE a = b

(* ------------------------------ hashing -------------------------------- *)

\* "0" * 64
ZeroHash == [i \in 1..64 |-> "0"]

create_hash(data) == <<"sha256:">> \o data

Bar == <<"|">>

\* the data string with patient and doctor in the other order
AddData_swapped(block_index, patient_id, doctor_id, treatment, previous_hash, timestamp) ==
    Fmt(block_index) \o Bar \o Fmt(doctor_id) \o Bar \o Fmt(patient_id) \o Bar
      \o Fmt(treatment) \o Bar \o Fmt(previous_hash) \o Bar \o Fmt(timestamp)

\* add_record's data string:
\* f"{block_index}|{patient_id}|{doctor_id}|{treatment}|{previous_hash}|{timestamp}"
AddData(block_index, patient_id, doctor_id, treatment, previous_hash, timestamp) ==
    Fmt(block_index) \o Bar \o Fmt(patient_id) \o Bar \o Fmt(doctor_id) \o Bar
      \o Fmt(treatment) \o Bar \o Fmt(previous_hash) \o Bar \o Fmt(timestamp)

\* verify_chain's data string, from the stored block
VerifyData(b) ==
    Fmt(b.index) \o Bar \o Fmt(b.patient_id) \o Bar \o Fmt(b.doctor_id) \o Bar
      \o Fmt(b.treatment) \o Bar \o Fmt(b.previous_hash) \o Bar \o Fmt(b.timestamp)

\* detect_tampering's data string, from the stored block
DetectData(b) ==
    Fmt(b.index) \o Bar \o Fmt(b.patient_id) \o Bar \o Fmt(b.doctor_id) \o Bar
      \o Fmt(b.treatment) \o Bar \o Fmt(b.previous_hash) \o Bar \o Fmt(b.timestamp)

\* time.ctime(t) and strftime("%Y-%m-%d %H:%M:%S"): display renderings of t
Ctime(t) == PyStr(<<"ctime ">> \o Str(t))
DateStr(t) == PyStr(<<"date ">> \o Str(t))

\* f"0|GENESIS|SYSTEM|init|{'0'*64}|{timestamp}"
GenesisData(timestamp) ==
    <<"0", "|", "G", "E", "N", "E", "S", "I", "S", "|", "S", "Y", "S", "T", "E", "M",
      "|", "i", "n", "i", "t", "|">> \o ZeroHash \o Bar \o Fmt(timestamp)

GENESIS == <<"G", "E", "N", "E", "S", "I", "S">>
MEDICAL_RECORD == <<"M", "E", "D", "I", "C", "A", "L", "_", "R", "E", "C", "O", "R", "D">>

create_genesis_block(t) ==
    [index |-> PyInt(0),
     patient_id |-> PyStr(GENESIS),
     doctor_id |-> PyStr(<<"S", "Y", "S", "T", "E", "M">>),
     treatment |-> PyStr(<<"B", "l", "o", "c", "k", "c", "h", "a", "i", "n", " ",
                           "i", "n", "i", "t", "i", "a", "l", "i", "z", "e", "d">>),
     timestamp |-> PyFloat(t),
     time_readable |-> Ctime(t),
     previous_hash |-> PyStr(ZeroHash),
     hash |-> PyStr(create_hash(GenesisData(PyFloat(t)))),
     is_valid |-> PyTrue,
     block_type |-> PyStr(GENESIS)]

(* ------------------------------- files --------------------------------- *)

Absent == [kind |-> "absent", chain |-> <<>>]
Empty == [kind |-> "empty", chain |-> <<>>]
Garbage == [kind |-> "garbage", chain |-> <<>>]
\* json.dump(chain, f, indent=4): the text of the chain; json.load gives the chain back
Json(c) == [kind |-> "json", chain |-> c]

\* os.path.exists
Exists(f) == f.kind # "absent"

\* a load that gives the empty chain whatever the file holds
load_chain_alwaysEmpty(f) == <<>>

\* load_chain (lines 27-37): the empty chain when the file is absent (27-29) and
\* when open or json.load raises (35-37), what json.load gives otherwise
load_chain(f) == IF f.kind = "json" THEN f.chain ELSE <<>>

(* ---------------------------- verification ----------------------------- *)

\* a loop that checks the linkage and not the recomputed digest
RECURSIVE VerifyFrom_linkOnly(_, _)
VerifyFrom_linkOnly(c, i) ==
    IF i > Len(c) THEN TRUE
    ELSE IF ~PyEq(c[i].previous_hash, c[i - 1].hash) THEN FALSE
    ELSE VerifyFrom_linkOnly(c, i + 1)

\* the loop of verify_chain from block i (1-based position; Python index i - 1)
RECURSIVE VerifyFrom(_, _)
VerifyFrom(c, i) ==
    IF i > Len(c) THEN TRUE
    ELSE IF ~PyEq(c[i].previous_hash, c[i - 1].hash) THEN FALSE
    ELSE IF ~PyEq(PyStr(create_hash(VerifyData(c[i]))), c[i].hash) THEN FALSE
    ELSE VerifyFrom(c, i + 1)

\* a verification that starts at block 1 and never looks at the genesis block
verify_chain_skipGenesis(c) ==
    IF Len(c) = 0 THEN TRUE ELSE VerifyFrom(c, 2)

\* the value verify_chain returns when load_chain gave c
verify_chain(c) ==
    IF Len(c) = 0 THEN TRUE
    ELSE IF ~PyEq(c[1].previous_hash, PyStr(ZeroHash)) THEN FALSE
    ELSE VerifyFrom(c, 2)

HashMismatch == "Hash mismatch"
PreviousHashMismatch == "Previous hash mismatch"

\* the entries when the second test is an elif of the first
DetectAt_elif(c, i) ==
    LET recalculated_hash == PyStr(create_hash(DetectData(c[i])))
    IN IF ~PyEq(recalculated_hash, c[i].hash)
       THEN <<[block_index |-> i - 1, reason |-> HashMismatch,
               expected |-> recalculated_hash, actual |-> c[i].hash]>>
       ELSE IF ~PyEq(c[i].previous_hash, c[i - 1].hash)
       THEN <<[block_index |-> i - 1, reason |-> PreviousHashMismatch,
               expected |-> c[i - 1].hash, actual |-> c[i].previous_hash]>>
       ELSE <<>>

\* the entries detect_tampering appends for the block at position i
DetectAt(c, i) ==
    LET recalculated_hash == PyStr(create_hash(DetectData(c[i])))
    IN (IF ~PyEq(recalculated_hash, c[i].hash)
        THEN <<[block_index |-> i - 1, reason |-> HashMismatch,
                expected |-> recalculated_hash, actual |-> c[i].hash]>>
        ELSE <<>>)
       \o
       (IF ~PyEq(c[i].previous_hash, c[i - 1].hash)
        THEN <<[block_index |-> i - 1, reason |-> PreviousHashMismatch,
                expected |-> c[i - 1].hash, actual |-> c[i].previous_hash]>>
        ELSE <<>>)

\* a walk that ends at the first block with a discrepancy
RECURSIVE DetectFrom_stopAtFirst(_, _)
DetectFrom_stopAtFirst(c, i) ==
    IF i > Len(c) THEN <<>>
    ELSE IF DetectAt(c, i) # <<>> THEN DetectAt(c, i)
    ELSE DetectFrom_stopAtFirst(c, i + 1)

\* the loop of detect_tampering from block i (lines 237-259): every block is visited
RECURSIVE DetectFrom(_, _)
DetectFrom(c, i) == IF i > Len(c) THEN <<>> ELSE DetectAt(c, i) \o DetectFrom(c, i + 1)

\* the list detect_tampering returns when load_chain gave c
detect_tampering(c) == DetectFrom(c, 2)

(* ----------------------------- exceptions ------------------------------ *)

NoException == "none"

\* v[:16] raises TypeError unless v is a string
Subscriptable(v) == v.ty = "str"

\* the keys the data string of lines 209 and 245 reads, in the order read
DataKeys == <<"index", "patient_id", "doctor_id", "treatment", "previous_hash", "timestamp">>

\* block[key] for the keys in turn: KeyError at the first the block lacks
RECURSIVE ReadKeys(_, _, _)
ReadKeys(block, keys, k) ==
    IF k > Len(keys) THEN NoException
    ELSE IF keys[k] \notin DOMAIN block THEN "KeyError"
    ELSE ReadKeys(block, keys, k + 1)

\* The exception that ends the loop of verify_chain from block i, if one does
\* (lines 195-217). Each block["key"] raises KeyError when the key is missing.
\* The two failure reports slice what they print, previous_block['hash'][:16]
\* and current_block['previous_hash'][:16] (lines 202-203) and
\* current_block['hash'][:16] (line 215), which raises TypeError for a value
\* that is not a string.
RECURSIVE VerifyExceptionFrom(_, _)
VerifyExceptionFrom(c, i) ==
    IF i > Len(c) THEN NoException
    ELSE IF "previous_hash" \notin DOMAIN c[i] \/ "hash" \notin DOMAIN c[i - 1] THEN "KeyError"
    ELSE IF ~PyEq(c[i].previous_hash, c[i - 1].hash)
         THEN (IF Subscriptable(c[i - 1].hash) /\ Subscriptable(c[i].previous_hash)
               THEN NoException ELSE "TypeError")
    ELSE IF ReadKeys(c[i], DataKeys, 1) # NoException THEN "KeyError"
    ELSE IF "hash" \notin DOMAIN c[i] THEN "KeyError"
    ELSE IF ~PyEq(PyStr(create_hash(VerifyData(c[i]))), c[i].hash)
         THEN (IF Subscriptable(c[i].hash) THEN NoException ELSE "TypeError")
    ELSE VerifyExceptionFrom(c, i + 1)

\* the exception verify_chain ends with when load_chain gave c, if it does;
\* otherwise it returns verify_chain(c)
VerifyException(c) ==
    IF Len(c) = 0 THEN NoException
    ELSE IF "previous_hash" \notin DOMAIN c[1] THEN "KeyError"
    ELSE IF ~PyEq(c[1].previous_hash, PyStr(ZeroHash)) THEN NoException
    ELSE VerifyExceptionFrom(c, 2)

\* the exception detect_tampering ends with when load_chain gave c, if it does
\* (lines 245, 248, 256); otherwise it returns detect_tampering(c)
RECURSIVE DetectExceptionFrom(_, _)
DetectExceptionFrom(c, i) ==
    IF i > Len(c) THEN NoException
    ELSE IF ReadKeys(c[i], DataKeys \o <<"hash">>, 1) # NoException THEN "KeyError"
    ELSE IF "hash" \notin DOMAIN c[i - 1] THEN "KeyError"
    ELSE DetectExceptionFrom(c, i + 1)

DetectException(c) == DetectExceptionFrom(c, 2)

\* what a caller has in hand when the operation ended with an exception
Raised(op, exception) == [op |-> "exception", in |-> op, val |-> exception]

\* the result of an operation that returns value unless it raises
Outcome(op, exception, value) ==
    IF exception # NoException THEN Raised(op, exception) ELSE [op |-> op, val |-> value]

(* ------------------------------ audit log ------------------------------ *)

\* log_operation(message): the line is appended, or the write fails and the
\* failure is swallowed (the "[timestamp] " prefix of a line is left out)
log_operation(log, message, log_ok) == IF log_ok THEN Append(log, message) ELSE log

\* f"Blockchain saved with {len(chain)} blocks"
SavedLine(c) == <<"Blockchain saved with ">> \o Str(Len(c)) \o <<" blocks">>

\* f"Block added - Index: {block_index}, Patient: {patient_id}, Doctor: {doctor_id}"
AddedLine(block) ==
    <<"Block added - Index: ">> \o Fmt(block.index) \o <<", Patient: ">>
      \o Fmt(block.patient_id) \o <<", Doctor: ">> \o Fmt(block.doctor_id)

\* f"Blockchain verified - {len(chain)} blocks OK"
VerifiedLine(c) == <<"Blockchain verified - ">> \o Str(Len(c)) \o <<" blocks OK">>

(* ------------------------------- inputs -------------------------------- *)

Procs == {1, 2}

\* the web layer passes the patient id of the form (a string) and the doctor's
\* user id of the session (an int); the demo passes strings for both
PatientIds == {PyStr(<<"P", "1">>), PyStr(<<"P", "2">>)}
DoctorIds == {PyStr(<<"D", "1">>), PyInt(7)}
Treatments == {PyStr(<<"F", "|", "P">>)}
Times == 0..MaxTime

NoRet == [op |-> "none", val |-> FALSE]

(* -------------------------------- state -------------------------------- *)

\* blockchain_file, backup_file, log_file: the three artifacts
\* pc[p]: where caller p stands; chain[p], record_hash[p]: locals of add_record;
\* old_data[p], saved[p]: local of save_chain and its result
\* backup_data[p]: local of rollback_to_backup
\* ret[p]: the last operation p completed and the value it returned
\* entry[p]: the primary artifact as it was when p's last operation was called
\* edit: the change an outside party made to the primary artifact, if any
\* saves: what the primary held after the last successful save_chain (last),
\*        after the one before it (prev) and before that one (older); phase is
\*        "saving" until the first restore, "restoring" while restores follow
\*        the saves, "mixed" once a save has followed a restore
\* export_file: a file other than the three artifacts that export_chain is given
NoEdit == [done |-> FALSE, index |-> 0, field |-> "", value |-> PyFalse, old |-> PyFalse]

Init ==
    /\ blockchain_file = Absent
    /\ backup_file = Absent
    /\ log_file = <<>>
    /\ pc = [p \in Procs |-> "idle"]
    /\ chain = [p \in Procs |-> <<>>]
    /\ record_hash = [p \in Procs |-> PyStr(<<>>)]
    /\ old_data = [p \in Procs |-> Absent]
    /\ saved = [p \in Procs |-> "none"]
    /\ backup_data = [p \in Procs |-> Absent]
    /\ ret = [p \in Procs |-> NoRet]
    /\ entry = [p \in Procs |-> Absent]
    /\ edit = NoEdit
    /\ saves = [last |-> Absent, prev |-> Absent, older |-> Absent, phase |-> "saving"]
    /\ export_file = Absent

(* ------------------------------ add_record ----------------------------- *)

\* an index counted from one
BlockIndex_fromOne(c) == PyInt(Len(c) + 1)

\* block_index = len(chain) (line 124)
BlockIndex(c) == PyInt(Len(c))

\* the block add_record builds (lines 122-143)
NewBlock(c, patient_id, doctor_id, treatment, t) ==
    LET previous_hash == c[Len(c)].hash
        timestamp == PyFloat(t)
        block_index == BlockIndex(c)
        data == AddData(block_index, patient_id, doctor_id, treatment,
                        previous_hash, timestamp)
    IN [index |-> block_index,
        patient_id |-> patient_id,
        doctor_id |-> doctor_id,
        treatment |-> treatment,
        timestamp |-> timestamp,
        time_readable |-> Ctime(t),
        date |-> DateStr(t),
        previous_hash |-> previous_hash,
        hash |-> PyStr(create_hash(data)),
        is_valid |-> PyTrue,
        block_type |-> PyStr(MEDICAL_RECORD)]

\* the chain add_record holds before it appends its block (lines 113-119)
WithGenesis(loaded, tg) ==
    IF Len(loaded) = 0 THEN <<create_genesis_block(tg)>> ELSE loaded

\* add_record up to the call of save_chain: load, genesis if empty, build, append.
\* tg and t are what time.time() returns in create_genesis_block and in add_record.
\* chain[-1]["hash"] (line 122) raises KeyError when the last block has no hash.
AddRecordLoad(p, patient_id, doctor_id, treatment, tg, t) ==
    /\ pc[p] = "idle"
    /\ Len(load_chain(blockchain_file)) < MaxBlocks
    /\ Len(log_file) + 2 <= MaxLog
    /\ LET c == WithGenesis(load_chain(blockchain_file), tg)
           block == NewBlock(c, patient_id, doctor_id, treatment, t)
       IN IF "hash" \in DOMAIN c[Len(c)]
          THEN /\ chain' = [chain EXCEPT ![p] = Append(c, block)]
               /\ record_hash' = [record_hash EXCEPT ![p] = block.hash]
               /\ pc' = [pc EXCEPT ![p] = "save_exists"]
               /\ UNCHANGED ret
          ELSE /\ ret' = [ret EXCEPT ![p] = Raised("add_record", "KeyError")]
               /\ UNCHANGED <<chain, record_hash, pc>>
    /\ entry' = [entry EXCEPT ![p] = blockchain_file]
    /\ UNCHANGED <<blockchain_file, backup_file, log_file, old_data, saved, edit, saves, export_file, backup_data>>

(* ------------------------------ save_chain ----------------------------- *)

\* a save that takes a backup whether or not there is a primary to copy
SaveReadOld_always(p) ==
    /\ pc[p] = "save_exists"
    /\ old_data' = [old_data EXCEPT ![p] = IF Exists(blockchain_file)
                                           THEN blockchain_file ELSE Empty]
    /\ pc' = [pc EXCEPT ![p] = "save_backup"]
    /\ UNCHANGED <<blockchain_file, backup_file, log_file, chain, record_hash,
                   saved, ret, entry, edit, saves, export_file, backup_data>>

\* lines 45-47: if the primary exists, read it
SaveReadOld(p) ==
    /\ pc[p] = "save_exists"
    /\ IF Exists(blockchain_file)
       THEN /\ old_data' = [old_data EXCEPT ![p] = blockchain_file]
            /\ pc' = [pc EXCEPT ![p] = "save_backup"]
       ELSE /\ pc' = [pc EXCEPT ![p] = "save_open"]
            /\ UNCHANGED old_data
    /\ UNCHANGED <<blockchain_file, backup_file, log_file, chain, record_hash,
                   saved, ret, entry, edit, saves, export_file, backup_data>>

\* a backup taken of the content being written
BackupContent_new(old, new_chain) == Json(new_chain)

\* what lines 48-49 write to the backup
BackupContent(old, new_chain) == old

\* a save that writes the backup only when there is none yet
SaveWriteBackup_keepFirst(p) ==
    /\ pc[p] = "save_backup"
    /\ backup_file' = IF Exists(backup_file) THEN backup_file
                      ELSE BackupContent(old_data[p], chain[p])
    /\ pc' = [pc EXCEPT ![p] = "save_open"]
    /\ UNCHANGED <<blockchain_file, log_file, chain, record_hash, old_data,
                   saved, ret, entry, edit, saves, export_file, backup_data>>

\* lines 48-49: write what was read to the backup
SaveWriteBackup(p) ==
    /\ pc[p] = "save_backup"
    /\ backup_file' = BackupContent(old_data[p], chain[p])
    /\ pc' = [pc EXCEPT ![p] = "save_open"]
    /\ UNCHANGED <<blockchain_file, log_file, chain, record_hash, old_data,
                   saved, ret, entry, edit, saves, export_file, backup_data>>

\* line 53: open(BLOCKCHAIN_FILE, "w") truncates the primary
SaveOpen(p) ==
    /\ pc[p] = "save_open"
    /\ blockchain_file' = Empty
    /\ pc' = [pc EXCEPT ![p] = "save_dump"]
    /\ UNCHANGED <<backup_file, log_file, chain, record_hash, old_data,
                   saved, ret, entry, edit, saves, export_file, backup_data>>

\* The primary after the text of c is flushed from offset 0 into a file whose
\* content is f. On an empty file it is the text of c. If another writer flushed
\* since this one truncated, the text of c overlays that text: it replaces it
\* when it is at least as long, and otherwise a tail of the other text follows
\* it, which json.load rejects.
Flushed(f, c) == IF f.kind = "empty" THEN {Json(c)} ELSE {Json(c), Garbage}

\* a save whose result is False when the audit line could not be written
SaveResult_logRaises(log_ok) == IF log_ok THEN "ok" ELSE "fail"

\* the result of save_chain once the dump succeeded (lines 59-61): log_operation
\* returns normally whether or not it wrote its line, then return True
SaveResult(log_ok) == "ok"

\* lines 54-61: json.dump and close, the audit line, return True
SaveDump(p, log_ok) ==
    /\ pc[p] = "save_dump"
    /\ blockchain_file' \in Flushed(blockchain_file, chain[p])
    /\ log_file' = log_operation(log_file, SavedLine(chain[p]), log_ok)
    /\ saved' = [saved EXCEPT ![p] = SaveResult(log_ok)]
    /\ saves' = [last |-> blockchain_file', prev |-> saves.last, older |-> saves.prev,
                 phase |-> IF saves.phase = "restoring" THEN "mixed" ELSE saves.phase]
    /\ pc' = [pc EXCEPT ![p] = "add_return"]
    /\ UNCHANGED <<backup_file, chain, record_hash, old_data, ret, entry, edit, export_file, backup_data>>

\* the shortened hash add_record prints (line 151)
AddRecordResult_short(hash, save_result) == PyStr(SubSeq(hash.s, 1, 16))

\* the value add_record returns (line 161)
AddRecordResult(hash, save_result) == hash

\* lines 149-161: the audit line if the save succeeded; return record_hash
AddRecordReturn(p, log_ok) ==
    /\ pc[p] = "add_return"
    /\ log_file' = IF saved[p] = "ok"
                   THEN log_operation(log_file, AddedLine(chain[p][Len(chain[p])]), log_ok)
                   ELSE log_file
    /\ ret' = [ret EXCEPT ![p] = [op |-> "add_record",
                                  val |-> AddRecordResult(record_hash[p], saved[p])]]
    /\ pc' = [pc EXCEPT ![p] = "idle"]
    /\ chain' = [chain EXCEPT ![p] = <<>>]
    /\ record_hash' = [record_hash EXCEPT ![p] = PyStr(<<>>)]
    /\ old_data' = [old_data EXCEPT ![p] = Absent]
    /\ saved' = [saved EXCEPT ![p] = "none"]
    /\ UNCHANGED <<blockchain_file, backup_file, entry, edit, saves, export_file, backup_data>>

(* ------------------------------- readers ------------------------------- *)

\* verify_chain returned True for a chain that is not empty, and so wrote its
\* audit line (line 225)
VerifiedOk(c) == Len(c) > 0 /\ VerifyException(c) = NoException /\ verify_chain(c)

\* verify_chain(): load, check, one audit line when the chain is not empty and
\* valid; an exception raised by the check reaches the caller
VerifyChain(p, log_ok) ==
    /\ pc[p] = "idle"
    /\ Len(log_file) + 1 <= MaxLog
    /\ LET c == load_chain(blockchain_file)
       IN /\ ret' = [ret EXCEPT ![p] =
                       Outcome("verify_chain", VerifyException(c), verify_chain(c))]
          /\ log_file' = IF VerifiedOk(c)
                         THEN log_operation(log_file, VerifiedLine(c), log_ok)
                         ELSE log_file
    /\ entry' = [entry EXCEPT ![p] = blockchain_file]
    /\ UNCHANGED <<blockchain_file, backup_file, pc, chain, record_hash, old_data,
                   saved, edit, saves, export_file, backup_data>>

\* detect_tampering(): load, list every discrepancy
DetectTampering(p) ==
    /\ pc[p] = "idle"
    /\ LET c == load_chain(blockchain_file)
       IN ret' = [ret EXCEPT ![p] =
                    Outcome("detect_tampering", DetectException(c), detect_tampering(c))]
    /\ entry' = [entry EXCEPT ![p] = blockchain_file]
    /\ UNCHANGED <<blockchain_file, backup_file, log_file, pc, chain, record_hash,
                   old_data, saved, edit, saves, export_file, backup_data>>

(* ------------------------------- queries ------------------------------- *)

PyNone == [ty |-> "NoneType", s |-> <<"N", "o", "n", "e">>]

\* get_record_by_hash (lines 269-273): the first block whose hash equals
\* record_hash, or None
RECURSIVE RecordByHashFrom(_, _, _)
RecordByHashFrom(c, i, hash) ==
    IF i > Len(c) THEN PyNone
    ELSE IF PyEq(c[i].hash, hash) THEN c[i]
    ELSE RecordByHashFrom(c, i + 1, hash)

get_record_by_hash(c, hash) == RecordByHashFrom(c, 1, hash)

\* block.get(key): None when the block lacks the key
Get(block, key) == IF key \in DOMAIN block THEN block[key] ELSE PyNone

\* get_patient_records (line 280): the blocks whose patient_id equals the argument
get_patient_records(c, patient_id) ==
    SelectSeq(c, LAMBDA block : PyEq(Get(block, "patient_id"), patient_id))

\* a selection by doctor that compares the patient field
get_doctor_records_byPatient(c, doctor_id) ==
    SelectSeq(c, LAMBDA block : PyEq(block.patient_id, doctor_id))

\* get_doctor_records (line 289): the blocks whose doctor_id equals the argument
get_doctor_records(c, doctor_id) ==
    SelectSeq(c, LAMBDA block : PyEq(Get(block, "doctor_id"), doctor_id))

\* c[start:] of Python: a negative start counts from the end, and the start is
\* clipped to the sequence
PySliceFrom(c, start) ==
    LET from == IF start < 0
                THEN (IF Len(c) + start < 0 THEN 0 ELSE Len(c) + start)
                ELSE (IF start > Len(c) THEN Len(c) ELSE start)
    IN SubSeq(c, from + 1, Len(c))

\* get_recent_records (line 298): chain[-count:] if len(chain) >= count else chain
get_recent_records(c, count) ==
    IF Len(c) >= count THEN PySliceFrom(c, 0 - count) ELSE c

\* the counts passed to get_recent_records; 10 is the default
RecentCounts == {0, 1, 2, 10}

\* the member of a Python set a value stands for: numbers that compare equal
\* are one member
SetMember(v) == IF v.ty \in {"int", "float", "bool"} THEN [ty |-> "number", s |-> Num(v)] ELSE v

\* validity read from the flags stored in the blocks
StatsIsValid_stored(loaded) == \A i \in 1..Len(loaded) : loaded[i].is_valid = PyTrue

\* the is_valid entry of get_chain_stats (line 330): verify_chain() over the
\* chain it loads
StatsIsValid(loaded) == verify_chain(loaded)

\* statistics that count the ids of every block, the genesis block included
ChainStats_withGenesis(c, is_valid) ==
    [total_blocks |-> Len(c),
     is_valid |-> is_valid,
     first_block |-> Get(c[1], "time_readable"),
     last_block |-> Get(c[Len(c)], "time_readable"),
     total_patients |-> Cardinality({SetMember(Get(c[i], "patient_id")) : i \in 1..Len(c)}),
     total_doctors |-> Cardinality({SetMember(Get(c[i], "doctor_id")) : i \in 1..Len(c)}),
     genesis_block |-> c[1]]

\* the dict get_chain_stats returns for a non-empty chain c (lines 320-337);
\* chain_size_kb, the byte size of the artifact, is left out
ChainStats(c, is_valid) ==
    LET records == {i \in 1..Len(c) : ~PyEq(Get(c[i], "block_type"), PyStr(GENESIS))}
    IN [total_blocks |-> Len(c),
        is_valid |-> is_valid,
        first_block |-> Get(c[1], "time_readable"),
        last_block |-> Get(c[Len(c)], "time_readable"),
        total_patients |-> Cardinality({SetMember(Get(c[i], "patient_id")) : i \in records}),
        total_doctors |-> Cardinality({SetMember(Get(c[i], "doctor_id")) : i \in records}),
        genesis_block |-> c[1]]

\* statistics that call an empty chain invalid
EmptyStats_invalid ==
    [total_blocks |-> 0,
     is_valid |-> FALSE,
     first_block |-> PyNone,
     last_block |-> PyNone,
     total_patients |-> 0,
     total_doctors |-> 0,
     genesis_block |-> PyNone]

\* the dict get_chain_stats returns for an empty chain (lines 309-317)
EmptyStats ==
    [total_blocks |-> 0,
     is_valid |-> TRUE,
     first_block |-> PyNone,
     last_block |-> PyNone,
     total_patients |-> 0,
     total_doctors |-> 0,
     genesis_block |-> PyNone]

\* a query: load the chain and return what the function computes from it
Query(p, op, arg, result) ==
    /\ pc[p] = "idle"
    /\ ret' = [ret EXCEPT ![p] = [op |-> op, val |-> result, arg |-> arg]]
    /\ entry' = [entry EXCEPT ![p] = blockchain_file]
    /\ UNCHANGED <<blockchain_file, backup_file, log_file, export_file, pc, chain,
                   record_hash, old_data, saved, backup_data, edit, saves>>

GetRecordByHash(p, hash) ==
    Query(p, "get_record_by_hash", hash, get_record_by_hash(load_chain(blockchain_file), hash))

\* a query answered from the chain the caller loaded for its previous call
GetPatientRecords_cached(p, patient_id) ==
    Query(p, "get_patient_records", patient_id,
          get_patient_records(load_chain(entry[p]), patient_id))

GetPatientRecords(p, patient_id) ==
    Query(p, "get_patient_records", patient_id,
          get_patient_records(load_chain(blockchain_file), patient_id))

GetDoctorRecords(p, doctor_id) ==
    Query(p, "get_doctor_records", doctor_id,
          get_doctor_records(load_chain(blockchain_file), doctor_id))

GetRecentRecords(p, count) ==
    Query(p, "get_recent_records", count,
          get_recent_records(load_chain(blockchain_file), count))

\* get_chain_stats, lines 306-326: load; the fixed dict when the chain is empty
StatsLoad(p) ==
    /\ pc[p] = "idle"
    /\ Len(log_file) + 1 <= MaxLog
    /\ entry' = [entry EXCEPT ![p] = blockchain_file]
    /\ LET c == load_chain(blockchain_file)
       IN IF Len(c) = 0
          THEN /\ ret' = [ret EXCEPT ![p] = [op |-> "get_chain_stats", val |-> EmptyStats]]
               /\ UNCHANGED <<pc, chain>>
          ELSE /\ chain' = [chain EXCEPT ![p] = c]
               /\ pc' = [pc EXCEPT ![p] = "stats_verify"]
               /\ UNCHANGED ret
    /\ UNCHANGED <<blockchain_file, backup_file, log_file, export_file, record_hash,
                   old_data, saved, backup_data, edit, saves>>

\* lines 328-339: the dict; its is_valid entry calls verify_chain(), which loads
\* the artifact again and writes its audit line, or raises
StatsVerify(p, log_ok) ==
    /\ pc[p] = "stats_verify"
    /\ LET loaded == load_chain(blockchain_file)
       IN /\ ret' = [ret EXCEPT ![p] =
                       Outcome("get_chain_stats", VerifyException(loaded),
                               ChainStats(chain[p], StatsIsValid(loaded)))]
          /\ log_file' = IF VerifiedOk(loaded)
                         THEN log_operation(log_file, VerifiedLine(loaded), log_ok)
                         ELSE log_file
    /\ chain' = [chain EXCEPT ![p] = <<>>]
    /\ pc' = [pc EXCEPT ![p] = "idle"]
    /\ UNCHANGED <<blockchain_file, backup_file, export_file, record_hash, old_data,
                   saved, backup_data, entry, edit, saves>>

(* -------------------------- backup and recovery ----------------------- *)

\* a restore that opens the primary and writes nothing
RollbackContent_nothing(data) == Empty

\* what line 388 writes to the primary: the text read from the backup, as it is
RollbackContent(data) == data

\* a restore that opens the primary before it looks for the backup
RollbackOpen_openFirst(p) ==
    /\ pc[p] = "idle"
    /\ Len(log_file) + 1 <= MaxLog
    /\ entry' = [entry EXCEPT ![p] = blockchain_file]
    /\ blockchain_file' = Empty
    /\ IF ~Exists(backup_file)
       THEN /\ ret' = [ret EXCEPT ![p] = [op |-> "rollback_to_backup", val |-> FALSE]]
            /\ UNCHANGED <<backup_data, pc>>
       ELSE /\ backup_data' = [backup_data EXCEPT ![p] = backup_file]
            /\ pc' = [pc EXCEPT ![p] = "rollback_write"]
            /\ UNCHANGED ret
    /\ UNCHANGED <<backup_file, log_file, export_file, chain, record_hash, old_data,
                   saved, edit, saves>>

\* rollback_to_backup, lines 379-387: without a backup return False; otherwise
\* read the backup and open the primary for writing, which truncates it
RollbackOpen(p) ==
    /\ pc[p] = "idle"
    /\ Len(log_file) + 1 <= MaxLog
    /\ entry' = [entry EXCEPT ![p] = blockchain_file]
    /\ IF ~Exists(backup_file)
       THEN /\ ret' = [ret EXCEPT ![p] = [op |-> "rollback_to_backup", val |-> FALSE]]
            /\ UNCHANGED <<blockchain_file, backup_data, pc>>
       ELSE /\ backup_data' = [backup_data EXCEPT ![p] = backup_file]
            /\ blockchain_file' = Empty
            /\ pc' = [pc EXCEPT ![p] = "rollback_write"]
            /\ UNCHANGED ret
    /\ UNCHANGED <<backup_file, log_file, export_file, chain, record_hash, old_data,
                   saved, edit, saves>>

\* lines 388-392: write the text, the audit line, return True
RollbackWrite(p, log_ok) ==
    /\ pc[p] = "rollback_write"
    /\ blockchain_file' = RollbackContent(backup_data[p])
    /\ log_file' = log_operation(log_file, <<"Blockchain restored from backup">>, log_ok)
    /\ ret' = [ret EXCEPT ![p] = [op |-> "rollback_to_backup", val |-> TRUE]]
    /\ backup_data' = [backup_data EXCEPT ![p] = Absent]
    /\ saves' = [saves EXCEPT !.phase = IF @ = "saving" THEN "restoring" ELSE @]
    /\ pc' = [pc EXCEPT ![p] = "idle"]
    /\ UNCHANGED <<backup_file, export_file, chain, record_hash, old_data, saved,
                   entry, edit>>

\* the files export_chain may be asked to write: the two artifacts themselves
\* and a file elsewhere
Destinations == {"blockchain_data.json", "blockchain_backup.json", "export.json"}

\* the chain export_chain dumps (line 365)
ExportData(c) == c

\* export_chain(filepath), lines 365-373: load, open the destination for
\* writing, dump, return True; return False when the open or the dump raises,
\* and then the destination keeps what it had or what was flushed until then
ExportChain(p, filepath, io_ok) ==
    /\ pc[p] = "idle"
    /\ LET c == ExportData(load_chain(blockchain_file))
           written == IF io_ok THEN {Json(c)} ELSE {Empty, Garbage}
           target(name, f) == IF filepath # name THEN {f}
                              ELSE IF io_ok THEN written ELSE written \cup {f}
       IN /\ blockchain_file' \in target("blockchain_data.json", blockchain_file)
          /\ backup_file' \in target("blockchain_backup.json", backup_file)
          /\ export_file' \in target("export.json", export_file)
    /\ ret' = [ret EXCEPT ![p] = [op |-> "export_chain", val |-> io_ok, arg |-> filepath]]
    /\ entry' = [entry EXCEPT ![p] = blockchain_file]
    /\ UNCHANGED <<log_file, pc, chain, record_hash, old_data, saved, backup_data,
                   edit, saves>>

(* ----------------------------- I/O failure ----------------------------- *)

\* save_chain's except branch (lines 62-64): a file operation raised.
\*  - reading the primary (46-47) fails: nothing is written;
\*  - writing the backup (48-49) fails: at open, or after open truncated it;
\*  - opening the primary (53) fails: nothing is written;
\*  - json.dump or the flush at close (54) fails: the primary keeps what was
\*    flushed until then, nothing or a part of the text.
SaveFail(p) ==
    /\ pc[p] \in {"save_exists", "save_backup", "save_open", "save_dump"}
    /\ pc[p] = "save_exists" => Exists(blockchain_file)
    /\ backup_file' \in IF pc[p] = "save_backup" THEN {backup_file, Empty} ELSE {backup_file}
    /\ blockchain_file' \in IF pc[p] = "save_dump" THEN {blockchain_file, Garbage}
                            ELSE {blockchain_file}
    /\ saved' = [saved EXCEPT ![p] = "fail"]
    /\ pc' = [pc EXCEPT ![p] = "add_return"]
    /\ UNCHANGED <<log_file, chain, record_hash, old_data, ret, entry, edit, saves, export_file, backup_data>>

(* --------------------------- outside editing --------------------------- *)

\* the values an editor of the artifact may put in a field of block i (position)
EditValues(c, i, field) ==
    {PyInt(9), PyFloat(5), PyFalse, PyStr(<<"X">>), PyStr(ZeroHash), PyStr(GENESIS),
     Ctime(5), DateStr(5), c[i].hash, c[i - 1].hash, c[i].previous_hash,
     PyStr(c[i][field].s)}

\* Someone edits the primary artifact while no operation runs: one field of one
\* non-genesis block gets another JSON value. Happens at most once.
Tamper(i, field) ==
    /\ \A p \in Procs : pc[p] = "idle"
    /\ ~edit.done
    /\ blockchain_file.kind = "json"
    /\ LET c == blockchain_file.chain
       IN /\ i \in 2..Len(c)
          /\ field \in DOMAIN c[i]
          /\ \E value \in EditValues(c, i, field) :
               /\ value # c[i][field]
               /\ blockchain_file' = Json([c EXCEPT ![i] = [c[i] EXCEPT ![field] = value]])
               /\ edit' = [done |-> TRUE, index |-> i - 1, field |-> field,
                           value |-> value, old |-> c[i][field]]
    /\ UNCHANGED <<backup_file, log_file, pc, chain, record_hash, old_data, saved,
                   ret, entry, saves, export_file, backup_data>>

Fields == {"index", "patient_id", "doctor_id", "treatment", "timestamp", "time_readable",
           "date", "previous_hash", "hash", "is_valid", "block_type"}

\* the values an editor may put in a field of the genesis block
GenesisEditValues(c, field) ==
    {PyInt(9), PyFloat(5), PyFalse, PyStr(<<"X">>), PyStr(ZeroHash), PyStr(MEDICAL_RECORD),
     Ctime(5), c[1].hash, c[Len(c)].hash, PyStr(c[1][field].s)}

\* Someone edits one field of the genesis block of the primary artifact while
\* no operation runs. Happens at most once.
TamperGenesis(field) ==
    /\ \A p \in Procs : pc[p] = "idle"
    /\ ~edit.done
    /\ blockchain_file.kind = "json"
    /\ LET c == blockchain_file.chain
       IN /\ Len(c) >= 2
          /\ field \in DOMAIN c[1]
          /\ \E value \in GenesisEditValues(c, field) :
               /\ value # c[1][field]
               /\ blockchain_file' = Json([c EXCEPT ![1] = [c[1] EXCEPT ![field] = value]])
               /\ edit' = [done |-> TRUE, index |-> 0, field |-> field,
                           value |-> value, old |-> c[1][field]]
    /\ UNCHANGED <<backup_file, log_file, export_file, pc, chain, record_hash, old_data,
                   saved, backup_data, ret, entry, saves>>

\* a block without one of its keys
Without(block, field) == [key \in DOMAIN block \ {field} |-> block[key]]

\* Someone removes one key of one block (position i) of the primary artifact
\* while no operation runs. Happens at most once.
RemoveField(i, field) ==
    /\ \A p \in Procs : pc[p] = "idle"
    /\ ~edit.done
    /\ blockchain_file.kind = "json"
    /\ LET c == blockchain_file.chain
       IN /\ i \in 1..Len(c)
          /\ field \in DOMAIN c[i]
          /\ blockchain_file' = Json([c EXCEPT ![i] = Without(c[i], field)])
          /\ edit' = [done |-> TRUE, index |-> i - 1, field |-> field,
                      value |-> PyNone, old |-> c[i][field]]
    /\ UNCHANGED <<backup_file, log_file, export_file, pc, chain, record_hash, old_data,
                   saved, backup_data, ret, entry, saves>>

\* Someone deletes the primary artifact of a non-empty valid chain, or replaces
\* it by text that is not JSON, while no operation runs. Happens at most once.
ReplacePrimary(content) ==
    /\ \A p \in Procs : pc[p] = "idle"
    /\ ~edit.done
    /\ blockchain_file.kind = "json"
    /\ Len(blockchain_file.chain) > 0
    /\ VerifiedOk(blockchain_file.chain)
    /\ content.kind # "json"
    /\ blockchain_file' = content
    /\ edit' = [done |-> TRUE, index |-> -1, field |-> content.kind,
                value |-> PyNone, old |-> PyNone]
    /\ UNCHANGED <<backup_file, log_file, export_file, pc, chain, record_hash, old_data,
                   saved, backup_data, ret, entry, saves>>

(* ---------------------------- specifications --------------------------- *)

\* the chain a load of the primary gives now
Persisted == load_chain(blockchain_file)

\* An environment says what the callers pass and what the platform answers:
\* the patient and doctor ids passed, the values time.time() returns, and
\* whether a write to the audit log succeeds.
Env(patients, doctors, clock, log) ==
    [patients |-> patients, doctors |-> doctors, clock |-> clock, log |-> log]

\* one patient, one doctor, a clock that stands still, a writable audit log
OneOfEach == Env({PyStr(<<"P", "1">>)}, {PyInt(7)}, {0}, {TRUE})

\* a write to the audit log may fail at any time, and fails once the log holds
\* LogQuota lines
LogMayFail ==
    Env({PyStr(<<"P", "1">>)}, {PyInt(7)}, {0},
        IF Len(log_file) < LogQuota THEN BOOLEAN ELSE {FALSE})

\* what caller p can do when no file operation of save_chain fails
Step(p, env) ==
    \/ \E patient_id \in env.patients, doctor_id \in env.doctors, treatment \in Treatments,
          tg \in env.clock, t \in env.clock :
           AddRecordLoad(p, patient_id, doctor_id, treatment, tg, t)
    \/ SaveReadOld(p)
    \/ SaveWriteBackup(p)
    \/ SaveOpen(p)
    \/ \E log_ok \in env.log : SaveDump(p, log_ok)
    \/ \E log_ok \in env.log : AddRecordReturn(p, log_ok)
    \/ \E log_ok \in env.log : VerifyChain(p, log_ok)
    \/ DetectTampering(p)

\* one caller, one operation at a time, every file operation succeeds
Next == Step(1, Env(PatientIds, DoctorIds, Times, {TRUE}))

Spec == Init /\ [][Next]_vars

\* one caller, file operations may fail
NextFail == Step(1, LogMayFail) \/ SaveFail(1)

SpecFail == Init /\ [][NextFail]_vars

\* one caller, file operations of save_chain may fail, the audit log is written
NextSaveFail == Step(1, OneOfEach) \/ SaveFail(1)

SpecSaveFail == Init /\ [][NextSaveFail]_vars

\* two request threads of the web layer, interleaved at the file operations;
\* thread p submits a record of patient p
NextConc == \E p \in Procs : Step(p, Env({PyStr(<<"P", Digit(p)>>)}, {PyInt(7)}, {0}, {TRUE}))

SpecConc == Init /\ [][NextConc]_vars

\* one caller, and an outside party that edits the artifact once
NextTamper ==
    \/ Step(1, Env({PyStr(<<"P", "1">>)}, {PyInt(7)}, {0}, {TRUE}))
    \/ \E i \in 2..MaxBlocks, field \in Fields : Tamper(i, field)

SpecTamper == Init /\ [][NextTamper]_vars

\* the hashes a caller may ask get_record_by_hash for: those of the persisted
\* blocks, and one no block has
KnownHashes == {Persisted[i].hash : i \in 1..Len(Persisted)} \cup {PyStr(<<"n", "o", "n", "e">>)}

\* the queries caller p can make
Queries(p, env) ==
    \/ \E hash \in KnownHashes : GetRecordByHash(p, hash)
    \/ \E patient_id \in env.patients : GetPatientRecords(p, patient_id)
    \/ \E doctor_id \in env.doctors : GetDoctorRecords(p, doctor_id)
    \/ \E count \in RecentCounts : GetRecentRecords(p, count)
    \/ StatsLoad(p)
    \/ \E log_ok \in env.log : StatsVerify(p, log_ok)

\* rollback_to_backup called by p
Rollback(p, env) ==
    \/ RollbackOpen(p)
    \/ \E log_ok \in env.log : RollbackWrite(p, log_ok)

TwoPatients == Env(PatientIds, {PyInt(7)}, {0}, {TRUE})

\* one caller that appends, verifies and restores; every file operation succeeds
NextRecovery == Step(1, TwoPatients) \/ Rollback(1, TwoPatients)

SpecRecovery == Init /\ [][NextRecovery]_vars

\* one caller that appends, verifies and exports
NextExport ==
    \/ Step(1, OneOfEach)
    \/ \E filepath \in Destinations, io_ok \in BOOLEAN : ExportChain(1, filepath, io_ok)

SpecExport == Init /\ [][NextExport]_vars

\* one caller; writes to the audit log may fail, no other file operation does
NextLogFail == Step(1, LogMayFail) \/ Rollback(1, LogMayFail)

SpecLogFail == Init /\ [][NextLogFail]_vars

\* the ids of the genesis block are ids a caller may pass as well
WithGenesisIds ==
    Env({PyStr(<<"P", "1">>), PyStr(GENESIS)},
        {PyInt(7), PyStr(<<"S", "Y", "S", "T", "E", "M">>)}, {0}, {TRUE})

\* one caller that appends and queries
NextQuery == Step(1, WithGenesisIds) \/ Queries(1, WithGenesisIds)

SpecQuery == Init /\ [][NextQuery]_vars

\* one caller that appends and asks for the statistics, and an outside party
\* that edits once
NextTamperStats ==
    \/ NextTamper
    \/ StatsLoad(1)
    \/ StatsVerify(1, TRUE)

SpecTamperStats == Init /\ [][NextTamperStats]_vars

\* one caller, and an outside party that edits the genesis block once
NextTamperGenesis ==
    \/ Step(1, OneOfEach)
    \/ \E field \in Fields : TamperGenesis(field)

SpecTamperGenesis == Init /\ [][NextTamperGenesis]_vars

\* one caller, and an outside party that removes a key of a block once
NextMalformed ==
    \/ Step(1, OneOfEach)
    \/ \E i \in 1..MaxBlocks, field \in Fields : RemoveField(i, field)

SpecMalformed == Init /\ [][NextMalformed]_vars

\* one patient, one doctor, a clock that may advance, a writable audit log
ClockRuns == Env({PyStr(<<"P", "1">>)}, {PyInt(7)}, Times, {TRUE})

\* one caller that appends, verifies and asks for the statistics, and an
\* outside party that deletes or corrupts the primary once
NextCorrupt ==
    \/ Step(1, ClockRuns)
    \/ StatsLoad(1)
    \/ StatsVerify(1, TRUE)
    \/ \E content \in {Absent, Empty, Garbage} : ReplacePrimary(content)

SpecCorrupt == Init /\ [][NextCorrupt]_vars

\* the ids of the __main__ demo (two patients, two doctors) and an audit log
\* with a quota, so that three records fit whatever the log holds
DemoIds ==
    Env(PatientIds, DoctorIds, {0}, IF Len(log_file) < LogQuota THEN {TRUE} ELSE {FALSE})

\* one caller that appends, verifies, asks for the statistics and for the
\* records of a doctor
NextDemo ==
    \/ Step(1, DemoIds)
    \/ StatsLoad(1)
    \/ \E log_ok \in DemoIds.log : StatsVerify(1, log_ok)
    \/ \E doctor_id \in DoctorIds : GetDoctorRecords(1, doctor_id)

SpecDemo == Init /\ [][NextDemo]_vars

(* ------------------------------- claims -------------------------------- *)

IsPrefix(a, b) == Len(a) <= Len(b) /\ SubSeq(b, 1, Len(a)) = a

HasEntry(list, i, reason) ==
    \E k \in 1..Len(list) : list[k].block_index = i /\ list[k].reason = reason

\* the number of "Block added" lines of the audit log: the add_record calls
\* that returned after a successful save
AddedLines == Cardinality({k \in 1..Len(log_file) : log_file[k][1] = "Block added - Index: "})

\* C1: starting from an absent artifact, after any sequence of sequential
\* add_record calls whose saves succeed, verify_chain() returns true: between
\* operations the persisted chain verifies, and every verify_chain call made
\* returned true.
C1_VerifyTrueAfterAdds ==
    /\ pc[1] = "idle" => verify_chain(Persisted) = TRUE
    /\ ret[1].op = "verify_chain" => ret[1].val = TRUE

C1_Witness ==
    /\ ret[1].op = "verify_chain" /\ ret[1].val = TRUE
    /\ Len(Persisted) = 3
    /\ Persisted[2].patient_id # Persisted[3].patient_id

\* C2: two concurrent add_record calls never both build their block on the same
\* tail, and once both have returned the persisted chain holds both returned
\* hashes at distinct positions.
C2_ConcurrentAppendsBothPersist ==
    /\ (pc[1] # "idle" /\ pc[2] # "idle") =>
          chain[1][Len(chain[1])].previous_hash # chain[2][Len(chain[2])].previous_hash
    /\ (pc[1] = "idle" /\ pc[2] = "idle"
          /\ ret[1].op = "add_record" /\ ret[2].op = "add_record") =>
          \E i, j \in 1..Len(Persisted) :
              /\ i # j
              /\ Persisted[i].hash = ret[1].val
              /\ Persisted[j].hash = ret[2].val

\* C3: every block the ledger constructs, genesis included, has a hash equal to
\* the digest of index|patient_id|doctor_id|treatment|previous_hash|timestamp
\* of its own fields.
C3_EveryBlockHashIsOwnDigest ==
    \A p \in Procs : \A i \in 1..Len(chain[p]) :
        chain[p][i].hash = PyStr(create_hash(VerifyData(chain[p][i])))

HashedFields == {"index", "patient_id", "doctor_id", "treatment", "previous_hash", "timestamp"}

\* verify_chain ends with TypeError exactly when the edited field is hash or
\* previous_hash and its new value is not a string
EditRaises == edit.field \in {"hash", "previous_hash"} /\ ~Subscriptable(edit.value)

C5_PreviousHashChangeReported ==
    (edit.done /\ pc[1] = "idle" /\ edit.field = "previous_hash"
       /\ ~PyEq(edit.value, Persisted[edit.index].hash)) =>
        \E k \in 1..Len(detect_tampering(Persisted)) :
            detect_tampering(Persisted)[k] =
                [block_index |-> edit.index, reason |-> PreviousHashMismatch,
                 expected |-> Persisted[edit.index].hash, actual |-> edit.value]

C5_Witness ==
    /\ edit.done /\ edit.field = "previous_hash" /\ edit.index = 2
    /\ pc[1] = "idle" /\ ret[1].op = "detect_tampering"
    /\ \E k \in 1..Len(ret[1].val) :
          ret[1].val[k] = [block_index |-> 2, reason |-> PreviousHashMismatch,
                           expected |-> Persisted[2].hash, actual |-> edit.value]

\* C6: N sequential successful add_record calls from an absent artifact leave
\* exactly N+1 persisted blocks, with index fields 0, 1, ..., N in chain order.
C6_LengthAndIndices ==
    pc[1] = "idle" =>
        /\ AddedLines = 0 => blockchain_file = Absent
        /\ AddedLines > 0 => Len(Persisted) = AddedLines + 1
        /\ \A i \in 1..Len(Persisted) : Persisted[i].index = PyInt(i - 1)

C6_Witness ==
    /\ pc[1] = "idle" /\ ret[1].op = "add_record"
    /\ AddedLines = 3 /\ Len(Persisted) = 4
    /\ Persisted[4].index = PyInt(3)

\* C7: across operations other than rollback_to_backup, the chain persisted when
\* an operation was called is a prefix of the chain persisted when it has
\* returned.
C7_PersistedOnlyGrows ==
    (pc[1] = "idle" /\ ret[1].op # "none") => IsPrefix(load_chain(entry[1]), Persisted)

\* C8: the first add_record on an empty ledger persists exactly two blocks, a
\* genesis block (index 0, GENESIS, previous_hash of 64 zeros) and a record block
\* (index 1) linked to it, and returns the hash of the record block.
C8_FirstAddRecord ==
    (pc[1] = "idle" /\ ret[1].op = "add_record" /\ entry[1] = Absent) =>
        /\ Len(Persisted) = 2
        /\ Persisted[1].index = PyInt(0)
        /\ Persisted[1].block_type = PyStr(GENESIS)
        /\ Persisted[1].previous_hash = PyStr(ZeroHash)
        /\ Len(Persisted[1].previous_hash.s) = 64
        /\ Persisted[2].index = PyInt(1)
        /\ Persisted[2].previous_hash = Persisted[1].hash
        /\ ret[1].val = Persisted[2].hash

C8_Witness ==
    /\ pc[1] = "idle" /\ ret[1].op = "add_record" /\ entry[1] = Absent
    /\ Len(Persisted) = 2 /\ ret[1].val = Persisted[2].hash

\* C9: the value add_record hands back after a failed save differs from the
\* value it hands back after a successful save of the same block.
C9_FailedSaveDistinguishable ==
    \A p \in Procs :
        (pc[p] = "add_return" /\ saved[p] = "fail") =>
            AddRecordResult(record_hash[p], saved[p]) # AddRecordResult(record_hash[p], "ok")

\* C10: when save_chain succeeds on an existing primary, the backup is written
\* while the primary still holds its old content, and after the save the backup
\* holds the content the primary had before the save and not the content written.
C10_BackupIsPriorContent ==
    Exists(entry[1]) =>
        /\ pc[1] = "save_open" => (backup_file = entry[1] /\ blockchain_file = entry[1])
        /\ pc[1] = "save_dump" => backup_file = entry[1]
        /\ (pc[1] = "add_return" /\ saved[1] = "ok") =>
              (backup_file = entry[1] /\ backup_file # blockchain_file)

C10_Witness ==
    /\ pc[1] = "add_return" /\ saved[1] = "ok"
    /\ Len(load_chain(entry[1])) = 2
    /\ backup_file = entry[1] /\ Len(Persisted) = 3

\* the number of audit lines that begin with the given text
LinesOf(first) == Cardinality({k \in 1..Len(log_file) : log_file[k][1] = first})

Returned(p, op) == pc[p] = "idle" /\ ret[p].op = op

\* rollback_to_backup has just returned True to caller 1, after exactly two
\* saves and no earlier restore
RestoredAfterTwoSaves ==
    /\ Returned(1, "rollback_to_backup")
    /\ ret[1].val = TRUE
    /\ LinesOf("Blockchain saved with ") = 2
    /\ LinesOf("Blockchain restored from backup") = 1

\* C11: after two successful saves from an absent artifact, rollback_to_backup
\* leaves the primary with exactly the content it had right after the first
\* save, and verify_chain accepts the restored chain.
C11_RollbackRestoresFirstSave ==
    RestoredAfterTwoSaves =>
        /\ blockchain_file = saves.prev
        /\ verify_chain(Persisted)

C11_Witness ==
    /\ RestoredAfterTwoSaves
    /\ saves.prev.kind = "json"
    /\ Len(saves.prev.chain) = 2
    /\ Len(saves.last.chain) = 3
    /\ Len(Persisted) = 2

ReaderOps == {"verify_chain", "detect_tampering", "get_record_by_hash",
              "get_patient_records", "get_doctor_records", "get_recent_records",
              "get_chain_stats"}

\* C12: a reader that runs while another caller saves never loads a truncated
\* or partially written primary: what it loads is the artifact as it was
\* before the save or as it is after it, so never a file that exists and does
\* not hold the text of a chain.
C12_ReaderLoadsWholeArtifact ==
    \A p \in Procs :
        Returned(p, "verify_chain") \/ Returned(p, "detect_tampering")
            => entry[p].kind \in {"absent", "json"}

\* C13: rollback_to_backup returns False and leaves the primary as it was when
\* no backup exists; when a backup exists and the file operations succeed it
\* returns True and the primary holds exactly what the backup holds.
C13_RollbackOutcome ==
    Returned(1, "rollback_to_backup") =>
        IF ret[1].val
        THEN Exists(backup_file) /\ blockchain_file = backup_file
        ELSE ~Exists(backup_file) /\ blockchain_file = entry[1]

\* both cases: a refused restore over an existing primary, and a restore
C13_WitnessRefused ==
    /\ Returned(1, "rollback_to_backup")
    /\ ~ret[1].val
    /\ Len(Persisted) = 2

C13_Witness ==
    /\ Returned(1, "rollback_to_backup")
    /\ ret[1].val
    /\ entry[1] # backup_file
    /\ Len(entry[1].chain) = 3
    /\ Len(Persisted) = 2

\* what load_chain is to give for a file: the stored chain when the file holds
\* the text of one, the empty chain when it is absent or unparseable
Stored(f) == IF f.kind = "json" THEN f.chain ELSE <<>>

\* C14: load_chain never raises: every operation that loads returns normally,
\* having worked on the empty chain when the primary was absent or could not be
\* parsed, and on the stored chain otherwise.
C14_LoadChainTotal ==
    /\ Returned(1, "verify_chain") => ret[1].val = verify_chain(Stored(entry[1]))
    /\ Returned(1, "detect_tampering") => ret[1].val = detect_tampering(Stored(entry[1]))
    /\ pc[1] = "save_exists" =>
         /\ Len(chain[1]) >= 2
         /\ SubSeq(chain[1], 1, Len(chain[1]) - 1) =
              IF entry[1].kind = "json" /\ Len(entry[1].chain) > 0
              THEN entry[1].chain
              ELSE <<create_genesis_block(0)>>

\* add_record has loaded an unparseable primary and gone on from the empty chain
C14_Witness ==
    /\ pc[1] = "save_exists"
    /\ entry[1].kind = "garbage"
    /\ Len(chain[1]) = 2

C14_WitnessStored ==
    /\ pc[1] = "save_exists"
    /\ entry[1].kind = "json"
    /\ Len(chain[1]) = 3

\* what the steps that write an audit line do to everything but the audit log,
\* given in terms of the state before the step alone
AuditedStep ==
    /\ pc[1] = "save_dump" /\ pc'[1] = "add_return" =>
         /\ saved'[1] = "ok"
         /\ blockchain_file' = Json(chain[1])
         /\ backup_file' = backup_file
    /\ pc[1] = "add_return" /\ pc'[1] = "idle" =>
         /\ ret'[1] = [op |-> "add_record", val |-> record_hash[1]]
         /\ blockchain_file' = blockchain_file
         /\ backup_file' = backup_file
    /\ pc[1] = "idle" /\ pc'[1] = "idle" /\ ret'[1].op = "verify_chain" =>
         /\ ret'[1].val = verify_chain(Persisted)
         /\ blockchain_file' = blockchain_file
         /\ backup_file' = backup_file
    /\ pc[1] = "rollback_write" /\ pc'[1] = "idle" =>
         /\ ret'[1] = [op |-> "rollback_to_backup", val |-> TRUE]
         /\ blockchain_file' = backup_data[1]
         /\ backup_file' = backup_file

\* C15: for save_chain, add_record, verify_chain and rollback_to_backup, the
\* value returned and the primary and the backup that result are the same
\* whether the write of the audit line succeeds or fails, and the failure
\* never reaches the caller.
C15_LogFailureInvisible == [][AuditedStep]_vars

\* an append and a restore have both returned success while none of their
\* audit lines could be written
C15_Witness ==
    /\ Returned(1, "rollback_to_backup")
    /\ ret[1].val
    /\ Len(Persisted) = 2
    /\ log_file = <<>>

\* C16: the is_valid entry of get_chain_stats is what verify_chain returns for
\* the same persisted artifact; the is_valid flags stored in the blocks have no
\* part in it.
C16_StatsValidityIsVerify ==
    Returned(1, "get_chain_stats") /\ entry[1] = blockchain_file =>
        ret[1].val.is_valid = verify_chain(Persisted)

\* statistics over a chain with a stored flag set to False, which verifies
C16_Witness ==
    /\ Returned(1, "get_chain_stats")
    /\ entry[1] = blockchain_file
    /\ edit.done
    /\ edit.field = "is_valid"
    /\ edit.value = PyFalse
    /\ ret[1].val.is_valid = TRUE
    /\ ret[1].val.total_blocks = 3

\* statistics over a chain whose flags all say True, which does not verify
C16_WitnessInvalid ==
    /\ Returned(1, "get_chain_stats")
    /\ entry[1] = blockchain_file
    /\ edit.done
    /\ edit.field = "treatment"
    /\ ret[1].val.is_valid = FALSE

\* what a read-only operation that returned r is to return over the chain c
ReaderResult(r, c) ==
    CASE r.op = "verify_chain" -> verify_chain(c)
      [] r.op = "detect_tampering" -> detect_tampering(c)
      [] r.op = "get_record_by_hash" -> get_record_by_hash(c, r.arg)
      [] r.op = "get_patient_records" -> get_patient_records(c, r.arg)
      [] r.op = "get_doctor_records" -> get_doctor_records(c, r.arg)
      [] r.op = "get_recent_records" -> get_recent_records(c, r.arg)
      [] r.op = "get_chain_stats" ->
           IF Len(c) = 0 THEN EmptyStats ELSE ChainStats(c, verify_chain(c))

\* a step in which a read-only operation loads or returns
ReaderStep ==
    /\ pc[1] = "idle" /\ pc'[1] = "idle" /\ ret'[1].op \in ReaderOps =>
         /\ blockchain_file' = blockchain_file
         /\ backup_file' = backup_file
         /\ ret'[1].val = ReaderResult(ret'[1], Persisted)
    /\ pc[1] = "idle" /\ pc'[1] = "stats_verify" =>
         /\ blockchain_file' = blockchain_file
         /\ backup_file' = backup_file
    /\ pc[1] = "stats_verify" /\ pc'[1] = "idle" =>
         /\ blockchain_file' = blockchain_file
         /\ backup_file' = backup_file
         /\ ret'[1].val = ReaderResult(ret'[1], Persisted)

\* C17: verify_chain, detect_tampering, get_record_by_hash, get_patient_records,
\* get_doctor_records, get_recent_records and get_chain_stats leave the primary
\* and the backup as they are, and what each call returns is computed from the
\* artifact as persisted when it is called, so a change persisted between two
\* calls shows in the second.
C17_ReadersFrame == [][ReaderStep]_vars

\* a query answered from a chain that has grown since the caller's first query
C17_Witness ==
    /\ Returned(1, "get_patient_records")
    /\ ret[1].arg = PyStr(<<"P", "1">>)
    /\ Len(ret[1].val) = 2
    /\ entry[1] = blockchain_file
    /\ backup_file.kind = "json"
    /\ Len(backup_file.chain) = 2

\* the file a destination names, as it is after the step
WrittenFile(filepath) ==
    CASE filepath = "blockchain_data.json" -> blockchain_file'
      [] filepath = "blockchain_backup.json" -> backup_file'
      [] filepath = "export.json" -> export_file'

\* a step in which export_chain runs
ExportStep ==
    pc[1] = "idle" /\ pc'[1] = "idle" /\ ret'[1].op = "export_chain" =>
        /\ blockchain_file' = blockchain_file
        /\ backup_file' = backup_file
        /\ ret'[1].val => WrittenFile(ret'[1].arg) = Json(Persisted)

\* C18: whatever the destination, export_chain leaves the primary and the
\* backup as they are, and when it succeeds the destination holds a copy of
\* the chain persisted at that time.
C18_ExportFrame == [][ExportStep]_vars

\* an export to the backup's path has replaced the backup of the last save
\* with the current chain
C18_BackupOverwritten ==
    /\ Returned(1, "export_chain")
    /\ ret[1].val
    /\ ret[1].arg = "blockchain_backup.json"
    /\ Len(Persisted) = 3
    /\ backup_file = blockchain_file

\* the positions of c, in order, whose block is not the genesis block and has
\* the given id in the given field
RecordsOf(c, field, id) ==
    SelectSeq(c, LAMBDA block : block.block_type # PyStr(GENESIS) /\ PyEq(block[field], id))

\* the genesis block of c when it carries the given id in the given field
GenesisOf(c, field, id) ==
    IF Len(c) > 0 /\ c[1].block_type = PyStr(GENESIS) /\ PyEq(c[1][field], id)
    THEN <<c[1]>>
    ELSE <<>>

ByPatientOrDoctor(p) ==
    /\ pc[p] = "idle"
    /\ ret[p].op \in {"get_patient_records", "get_doctor_records"}
    /\ entry[p] = blockchain_file

QueriedField == IF ret[1].op = "get_patient_records" THEN "patient_id" ELSE "doctor_id"

\* C19 as stated: for every id passed to add_record, get_patient_records
\* returns exactly the blocks whose patient_id equals it, in append order, and
\* never the genesis block; get_doctor_records the same by doctor_id.
C19_ExactlyTheRecords ==
    /\ ByPatientOrDoctor(1)
    /\ RecordsOf(Persisted, QueriedField, ret[1].arg) # <<>>
    => ret[1].val = RecordsOf(Persisted, QueriedField, ret[1].arg)

\* C19, amended: get_patient_records returns exactly the blocks whose
\* patient_id equals the id, in append order; the genesis block is among them,
\* first, exactly when the id is the genesis block's own ("GENESIS"), and never
\* otherwise. get_doctor_records the same by doctor_id (and "SYSTEM").
C19_RecordsAndMatchingGenesis ==
    ByPatientOrDoctor(1) =>
        ret[1].val = GenesisOf(Persisted, QueriedField, ret[1].arg)
                       \o RecordsOf(Persisted, QueriedField, ret[1].arg)

\* a patient was recorded under the id "GENESIS": the query returns the
\* genesis block and that record
C19_Witness ==
    /\ ByPatientOrDoctor(1)
    /\ ret[1].op = "get_patient_records"
    /\ ret[1].arg = PyStr(GENESIS)
    /\ Len(ret[1].val) = 2
    /\ ret[1].val[1] = Persisted[1]
    /\ ret[1].val[2].block_type = PyStr(MEDICAL_RECORD)

\* an ordinary id: two of three records, in order, no genesis block
C19_WitnessOrdinary ==
    /\ ByPatientOrDoctor(1)
    /\ ret[1].op = "get_doctor_records"
    /\ ret[1].arg = PyInt(7)
    /\ Len(Persisted) = 4
    /\ Len(ret[1].val) = 2
    /\ ret[1].val[1].index = PyInt(1)
    /\ ret[1].val[2].index = PyInt(3)

\* C20: for every n >= 0, get_recent_records(n) returns the last n blocks when
\* the chain has at least n, and the whole chain when it has fewer, so the
\* result has min(n, len(chain)) blocks.
C20_RecentIsLastN ==
    Returned(1, "get_recent_records") /\ entry[1] = blockchain_file =>
        LET n == ret[1].arg
            len == Len(Persisted)
            m == IF n < len THEN n ELSE len
        IN ret[1].val = SubSeq(Persisted, len - m + 1, len)

\* get_recent_records(0) over three blocks returned all three
C20_ZeroReturnsAll ==
    /\ Returned(1, "get_recent_records")
    /\ entry[1] = blockchain_file
    /\ ret[1].arg = 0
    /\ Len(Persisted) = 3
    /\ ret[1].val = Persisted

\* the (patient_id, doctor_id) pairs of the blocks after the first, in order
IdPairs(c) == [i \in 1..Len(c) - 1 |-> <<c[i + 1].patient_id, c[i + 1].doctor_id>>]

\* the three calls of the demo: (P001, D001), (P002, D001), (P001, D002)
DemoPairs ==
    <<<<PyStr(<<"P", "1">>), PyStr(<<"D", "1">>)>>,
      <<PyStr(<<"P", "2">>), PyStr(<<"D", "1">>)>>,
      <<PyStr(<<"P", "1">>), PyInt(7)>>>>

DemoChain == Len(Persisted) = 4 /\ IdPairs(Persisted) = DemoPairs

\* C21: get_chain_stats reports total_blocks = the number of persisted blocks,
\* genesis included, and total_patients / total_doctors = the number of distinct
\* patient_id / doctor_id values over the non-genesis blocks. After the three
\* calls of the demo that is 4 blocks, 2 patients, 2 doctors, and
\* get_doctor_records of the first doctor returns exactly blocks 1 and 2.
C21_StatsCounts ==
    /\ Returned(1, "get_chain_stats") /\ entry[1] = blockchain_file =>
         /\ ret[1].val.total_blocks = Len(Persisted)
         /\ ret[1].val.total_patients =
              Cardinality({Persisted[i].patient_id : i \in 2..Len(Persisted)})
         /\ ret[1].val.total_doctors =
              Cardinality({Persisted[i].doctor_id : i \in 2..Len(Persisted)})
         /\ DemoChain =>
              /\ ret[1].val.total_blocks = 4
              /\ ret[1].val.total_patients = 2
              /\ ret[1].val.total_doctors = 2
    /\ Returned(1, "get_doctor_records") /\ entry[1] = blockchain_file /\ DemoChain
         /\ ret[1].arg = PyStr(<<"D", "1">>) =>
         ret[1].val = <<Persisted[2], Persisted[3]>>

\* the statistics of the demo's chain
C21_Witness ==
    /\ Returned(1, "get_chain_stats")
    /\ entry[1] = blockchain_file
    /\ DemoChain
    /\ ret[1].val.total_patients = 2
    /\ ret[1].val.genesis_block = Persisted[1]

C21_WitnessDoctor ==
    /\ Returned(1, "get_doctor_records")
    /\ entry[1] = blockchain_file
    /\ DemoChain
    /\ ret[1].arg = PyStr(<<"D", "1">>)
    /\ Len(ret[1].val) = 2

\* C22: whenever verify_chain returns false for the persisted artifact,
\* detect_tampering on the same artifact returns a list that is not empty.
C22_FailureHasDiscrepancy ==
    /\ pc[1] = "idle"
    /\ VerifyException(Persisted) = NoException
    /\ verify_chain(Persisted) = FALSE
    /\ DetectException(Persisted) = NoException
    => detect_tampering(Persisted) # <<>>

\* the genesis block's previous_hash was edited: verify_chain returned False,
\* and detect_tampering then returned the empty list
C22_SilentFailure ==
    /\ Returned(1, "detect_tampering")
    /\ entry[1] = blockchain_file
    /\ ret[1].val = <<>>
    /\ edit.done /\ edit.index = 0 /\ edit.field = "previous_hash"
    /\ verify_chain(Persisted) = FALSE

\* the number of entries of the list for block i with the given reason
EntriesFor(list, i, reason) ==
    Cardinality({k \in 1..Len(list) : list[k].block_index = i /\ list[k].reason = reason})

\* block i (index) of c does not carry the digest of its own six fields
HashViolated(c, i) == ~PyEq(PyStr(create_hash(DetectData(c[i + 1]))), c[i + 1].hash)

\* block i (index) of c does not point at the hash of block i - 1
LinkViolated(c, i) == ~PyEq(c[i + 1].previous_hash, c[i].hash)

\* C23: detect_tampering does not stop at the first discrepancy: for every
\* block i >= 1 its list has one "Hash mismatch" entry if the stored hash is
\* not the recomputed digest and, separately, one "Previous hash mismatch"
\* entry if previous_hash is not block i-1's hash; one entry per violated
\* (block, invariant) pair and no other, in ascending block order.
C23_EveryDiscrepancyOnce ==
    Returned(1, "detect_tampering") /\ entry[1] = blockchain_file =>
        LET list == ret[1].val
        IN /\ \A i \in 1..Len(Persisted) - 1 :
                /\ EntriesFor(list, i, HashMismatch) =
                     (IF HashViolated(Persisted, i) THEN 1 ELSE 0)
                /\ EntriesFor(list, i, PreviousHashMismatch) =
                     (IF LinkViolated(Persisted, i) THEN 1 ELSE 0)
           /\ \A k \in 1..Len(list) :
                /\ list[k].block_index \in 1..Len(Persisted) - 1
                /\ list[k].reason \in {HashMismatch, PreviousHashMismatch}
           /\ \A k, l \in 1..Len(list) : k < l => list[k].block_index <= list[l].block_index

\* a changed hash of block 1 shows twice: at block 1, and as the broken link of
\* block 2
C23_Witness ==
    /\ Returned(1, "detect_tampering")
    /\ entry[1] = blockchain_file
    /\ edit.done /\ edit.field = "hash" /\ edit.index = 1
    /\ Len(ret[1].val) = 2
    /\ ret[1].val[1].block_index = 1 /\ ret[1].val[1].reason = HashMismatch
    /\ ret[1].val[2].block_index = 2 /\ ret[1].val[2].reason = PreviousHashMismatch

\* rollback_to_backup returns True in this step
Restores == pc[1] = "rollback_write" /\ pc'[1] = "idle"

\* what a step of rollback_to_backup does to the generations
GenerationStep ==
    /\ pc[1] = "idle" /\ pc'[1] = "rollback_write" => backup_file' = backup_file
    /\ Restores => backup_file' = backup_file
    /\ Restores /\ ret[1] = [op |-> "rollback_to_backup", val |-> TRUE] =>
         blockchain_file' = entry[1]
    /\ Restores /\ saves.phase # "mixed" /\ Exists(saves.prev) =>
         /\ blockchain_file' = saves.prev
         /\ blockchain_file' # saves.older

C25_VerifyEndsWithBoolean ==
    \A p \in Procs :
        /\ ~(ret[p].op = "exception" /\ ret[p].in = "verify_chain")
        /\ ret[p].op = "verify_chain" => ret[p].val \in BOOLEAN

\* verify_chain ended with KeyError on a chain whose block 1 has no treatment
C25_KeyErrorReached ==
    /\ ret[1] = Raised("verify_chain", "KeyError")
    /\ entry[1] = blockchain_file
    /\ edit.done /\ edit.index = 1 /\ edit.field = "treatment"

\* C26: whenever save_chain returns failure, the primary still holds what it
\* held before the call: a failed save never leaves it truncated, partially
\* written or replaced, so a failed add_record loses no persisted block.
C26_FailedSaveKeepsPrimary ==
    pc[1] = "add_return" /\ saved[1] = "fail" => blockchain_file = entry[1]

\* save_chain returned False after it had truncated a primary of two blocks
C26_PrimaryLost ==
    /\ pc[1] = "add_return"
    /\ saved[1] = "fail"
    /\ Len(entry[1].chain) = 2
    /\ blockchain_file = Empty

\* C27: between the calls of a caller that appends and restores, with every
\* file operation succeeding, the backup, when it exists, holds a chain that
\* is a prefix of the primary's chain, equal to it or one block shorter; and
\* there is no backup before the second successful save.
C27_BackupOneBehind ==
    pc[1] = "idle" /\ Exists(backup_file) =>
        /\ backup_file.kind = "json"
        /\ blockchain_file.kind = "json"
        /\ IsPrefix(backup_file.chain, Persisted)
        /\ Len(Persisted) - Len(backup_file.chain) \in {0, 1}
        /\ Exists(saves.prev)

\* both cases: after the second save the backup is one block shorter than the
\* primary; after a restore the two are equal
C27_Witness ==
    /\ pc[1] = "idle"
    /\ Exists(saves.prev)
    /\ backup_file.kind = "json"
    /\ Len(backup_file.chain) = 2
    /\ Len(Persisted) = 3

C27_WitnessEqual ==
    /\ Returned(1, "rollback_to_backup")
    /\ ret[1].val
    /\ backup_file = blockchain_file
    /\ Len(Persisted) = 2

\* the primary was deleted or made unparseable and has not been written since
Unreadable == edit.done /\ blockchain_file.kind \in {"absent", "empty", "garbage"}

\* C28: once the primary of a non-empty valid chain is deleted or replaced by
\* unparseable content, verify_chain() returns True, detect_tampering()
\* returns the empty list and get_chain_stats() reports total_blocks 0 with
\* is_valid True.
C28_FailsOpen ==
    Unreadable /\ pc[1] = "idle" =>
        /\ VerifyException(Persisted) = NoException
        /\ verify_chain(Persisted) = TRUE
        /\ detect_tampering(Persisted) = <<>>
        /\ entry[1] = blockchain_file =>
             /\ ret[1].op # "exception"
             /\ ret[1].op = "verify_chain" => ret[1].val = TRUE
             /\ ret[1].op = "detect_tampering" => ret[1].val = <<>>
             /\ ret[1].op = "get_chain_stats" =>
                  ret[1].val.total_blocks = 0 /\ ret[1].val.is_valid = TRUE

\* the statistics of a ledger of three blocks that has been replaced by garbage
C28_Witness ==
    /\ Unreadable
    /\ blockchain_file = Garbage
    /\ Len(saves.last.chain) = 3
    /\ entry[1] = blockchain_file
    /\ ret[1].op = "get_chain_stats"

C28_WitnessDeleted ==
    /\ Unreadable
    /\ blockchain_file = Absent
    /\ entry[1] = blockchain_file
    /\ ret[1].op = "verify_chain"

\* the two-block chain add_record builds from nothing
FreshChain(patient_id, doctor_id, treatment, tg, t) ==
    LET genesis == <<create_genesis_block(tg)>>
    IN Append(genesis, NewBlock(genesis, patient_id, doctor_id, treatment, t))

GenesisEdited == edit.done /\ edit.index = 0 /\ pc[1] = "idle"

\* C30: after a change to a field of block 0 other than previous_hash and
\* hash, verify_chain() returns True and detect_tampering() returns the empty
\* list; a change to block 0's previous_hash makes verify_chain() return
\* False, and a change to its hash is reported for block 1 by
\* detect_tampering() and makes verify_chain() return False, or raise
\* TypeError when the new hash is not a string.
C30_GenesisContentUnverified ==
    GenesisEdited =>
        /\ edit.field \notin {"hash", "previous_hash"} =>
             /\ VerifyException(Persisted) = NoException
             /\ verify_chain(Persisted) = TRUE
             /\ detect_tampering(Persisted) = <<>>
             /\ entry[1] = blockchain_file =>
                  /\ ret[1].op # "exception"
                  /\ ret[1].op = "verify_chain" => ret[1].val = TRUE
                  /\ ret[1].op = "detect_tampering" => ret[1].val = <<>>
        /\ edit.field = "previous_hash" =>
             /\ VerifyException(Persisted) = NoException
             /\ verify_chain(Persisted) = FALSE
             /\ ret[1].op = "verify_chain" /\ entry[1] = blockchain_file => ret[1].val = FALSE
        /\ edit.field = "hash" =>
             /\ HasEntry(detect_tampering(Persisted), 1, PreviousHashMismatch)
             /\ VerifyException(Persisted) =
                  (IF Subscriptable(edit.value) THEN NoException ELSE "TypeError")
             /\ Subscriptable(edit.value) => verify_chain(Persisted) = FALSE

\* the treatment of the genesis block was rewritten and verify_chain was called
C30_Witness ==
    /\ GenesisEdited
    /\ edit.field = "treatment"
    /\ entry[1] = blockchain_file
    /\ ret[1].op = "verify_chain"

\* the previous_hash of the genesis block was rewritten and verify_chain was called
C30_WitnessDetected ==
    /\ GenesisEdited
    /\ edit.field = "previous_hash"
    /\ entry[1] = blockchain_file
    /\ ret[1].op = "verify_chain"
====
